---- MODULE Spec2Model ----
(***************************************************************************)
(* Model of gpt_to_ableton.py: a text holding three note tables (Melody,   *)
(* Drum, Bass) is cut into sections, each section is parsed into rows of   *)
(* string tokens, and the rows are sent as AbletonOSC commands.            *)
(*                                                                         *)
(* Texts are TLA+ strings, handled character by character with Len, SubSeq *)
(* and \o.  Indices of the Python operators (rindex, slices) are 0-based   *)
(* as in the source.  Python floats are modelled as decimal fixed-point    *)
(* numbers counted in units of 10^-FRAC_DIGITS.                            *)
(***************************************************************************)
EXTENDS Integers, Sequences, FiniteSets, TLC

\* ---------------------------------------------------------------- constants
PITCH == "pitch"
START_TIME == "start_time"
VELOCITY == "velocity"
DURATION == "duration"
SCHEMA == <<PITCH, START_TIME, DURATION, VELOCITY>>
VALID_MIDI_NOTES == 30..90
SONG_TEMPO == 60

MELODY == "Melody"
DRUM == "Drum"
BASS == "Bass"

NL == "\n"
TAB == "\t"
SP == " "

\* Python's None as a parse result: a value no list of rows equals (every
\* row has at least one field)
None == <<<<>>>>

\* the exceptions a call raises; NoError when it returns
NoError == ""
ValueError == "ValueError"
IndexError == "IndexError"
TypeError == "TypeError"

\* SCHEMA.index(name), 0-based
SchemaIndex(name) == (CHOOSE i \in 1..Len(SCHEMA) : SCHEMA[i] = name) - 1

\* row[k] for a 0-based k
Field(row, k) == row[k + 1]

\* ------------------------------------------------------- string primitives
\* string[i], 0-based
CharAt(string, i) == SubSeq(string, i + 1, i + 1)

\* string[a:b] for 0 <= a, b <= len(string)
Slice(string, a, b) == SubSeq(string, a + 1, b)

\* string.startswith(prefix, i): prefix occurs in string at 0-based offset i
MatchAt(string, sub, i) ==
    /\ i >= 0
    /\ i + Len(sub) <= Len(string)
    /\ SubSeq(string, i + 1, i + Len(sub)) = sub

startswith(string, prefix) == MatchAt(string, prefix, 0)

\* the offsets >= start at which sub occurs in string
OffsetsOf(string, sub, start) ==
    { i \in start..(Len(string) - Len(sub)) : MatchAt(string, sub, i) }

\* string.rindex(sub, start): the highest offset >= start at which sub
\* occurs; -1 stands for the ValueError
rindex(string, sub, start) ==
    LET offsets == OffsetsOf(string, sub, start) IN
    IF offsets = {} THEN -1
    ELSE CHOOSE i \in offsets : \A j \in offsets : j <= i

\* string.find(sub, start): the lowest offset >= start at which sub occurs,
\* -1 when there is none
FindFrom(string, sub, start) ==
    LET offsets == OffsetsOf(string, sub, start) IN
    IF offsets = {} THEN -1
    ELSE CHOOSE i \in offsets : \A j \in offsets : i <= j

\* sub in string
Contains(string, sub) == FindFrom(string, sub, 0) # -1

\* string.split(sep, 1)[1], defined when sep occurs in string
SplitOnceTail(string, sep) ==
    Slice(string, FindFrom(string, sep, 0) + Len(sep), Len(string))

\* the offsets of the characters of string that are in the set separators
SeparatorsOf(string, separators) ==
    { i \in 0..(Len(string) - 1) : CharAt(string, i) \in separators }

\* the k-th smallest element of the set of numbers S
Nth(S, k) == CHOOSE x \in S : Cardinality({ y \in S : y < x }) = k - 1

\* string cut at every single separator character: one field more than there
\* are separators, empty fields kept
SplitAt(string, separators) ==
    LET seps == SeparatorsOf(string, separators)
        count == Cardinality(seps)
    IN [k \in 1..(count + 1) |->
            Slice(string,
                  IF k = 1 THEN 0 ELSE Nth(seps, k - 1) + 1,
                  IF k = count + 1 THEN Len(string) ELSE Nth(seps, k))]

\* data.split("\n")
SplitLines(data) == SplitAt(data, {NL})

\* re.split("\t| ", row): one split at every single tab or space
re_split(row) == SplitAt(row, {TAB, SP})

\* ------------------------------------------------------------ conversions
Digits == {"0", "1", "2", "3", "4", "5", "6", "7", "8", "9"}

DigitChar(d) == SubSeq("0123456789", d + 1, d + 1)

DigitVal(c) == CHOOSE d \in 0..9 : DigitChar(d) = c

RECURSIVE str(_)
\* str(n) for an integer n >= 0
str(n) == IF n < 10 THEN DigitChar(n) ELSE str(n \div 10) \o DigitChar(n % 10)

AllDigits(s) == \A i \in 0..(Len(s) - 1) : CharAt(s, i) \in Digits

RECURSIVE DigitsVal(_)
\* value of a string of decimal digits ("" is 0)
DigitsVal(s) ==
    IF Len(s) = 0 THEN 0
    ELSE 10 * DigitsVal(SubSeq(s, 1, Len(s) - 1)) + DigitVal(CharAt(s, Len(s) - 1))

HasSign(tok) == Len(tok) > 0 /\ CharAt(tok, 0) \in {"-", "+"}
Unsigned(tok) == IF HasSign(tok) THEN Slice(tok, 1, Len(tok)) ELSE tok
SignOf(tok) == IF Len(tok) > 0 /\ CharAt(tok, 0) = "-" THEN -1 ELSE 1

\* int(tok) succeeds: an optional sign and one or more digits
IntOk(tok) == LET u == Unsigned(tok) IN Len(u) > 0 /\ AllDigits(u)

\* int(tok)
IntVal(tok) == SignOf(tok) * DigitsVal(Unsigned(tok))

\* number of decimal digits the fixed-point floats keep
FRAC_DIGITS == 5

RECURSIVE Pow10(_)
Pow10(k) == IF k = 0 THEN 1 ELSE 10 * Pow10(k - 1)

\* offset of the decimal point in u, Len(u) when there is none
DotPos(u) ==
    LET dot == FindFrom(u, ".", 0) IN IF dot = -1 THEN Len(u) ELSE dot

IntPart(u) == Slice(u, 0, DotPos(u))

FracPart(u) ==
    LET dot == DotPos(u) IN IF dot < Len(u) THEN Slice(u, dot + 1, Len(u)) ELSE ""

\* float(tok) succeeds: an optional sign, digits with at most one decimal
\* point and at least one digit (the decimal literals of at most FRAC_DIGITS
\* fractional digits; exponents, inf and nan are outside the modelled texts)
FloatOk(tok) ==
    LET u == Unsigned(tok)
        int == IntPart(u)
        frac == FracPart(u)
    IN /\ AllDigits(int)
       /\ AllDigits(frac)
       /\ Len(int) + Len(frac) > 0
       /\ Len(frac) <= FRAC_DIGITS

\* float(tok), in units of 10^-FRAC_DIGITS
FloatVal(tok) ==
    LET u == Unsigned(tok)
        frac == FracPart(u)
    IN SignOf(tok) * (DigitsVal(IntPart(u)) * Pow10(FRAC_DIGITS)
                      + DigitsVal(frac) * Pow10(FRAC_DIGITS - Len(frac)))

\* round(t, 4) on a value in units of 10^-FRAC_DIGITS: nearest multiple of
\* 10^-4, a tie going to the even neighbour
round4(t) ==
    LET step == Pow10(FRAC_DIGITS - 4)
        q == t \div step
        r == t % step
    IN IF 2 * r < step THEN q * step
       ELSE IF 2 * r > step THEN (q + 1) * step
       ELSE IF q % 2 = 0 THEN q * step ELSE (q + 1) * step

\* ------------------------------------------------------ program functions
\* find_substring with the end marker searched forwards (index for rindex)
find_substring_FirstEnd(string, start, end) ==
    LET found == rindex(string, start, 0)
        s == found + Len(start)
        e == FindFrom(string, end, s)
    IN IF found = -1 \/ e = -1 THEN "" ELSE Slice(string, s, e)

\* find_substring(string, start, end)
find_substring(string, start, end) ==
    LET found == rindex(string, start, 0)
        s == found + Len(start)
        e == rindex(string, end, s)
    IN IF found = -1 \/ e = -1 THEN "" ELSE Slice(string, s, e)

\* the row filter of the first comprehension of parse_table_to_list
IsCandidateRow(row, valid_midi_notes) ==
    row # "" /\ \E note \in valid_midi_notes : startswith(row, str(note))

\* parse_table_to_list(data, valid_midi_notes)
parse_table_to_list(data, valid_midi_notes) ==
    IF data = "" THEN None
    ELSE LET candidates == SelectSeq(SplitLines(data),
                                     LAMBDA row : IsCandidateRow(row, valid_midi_notes))
             fields == [i \in 1..Len(candidates) |-> re_split(candidates[i])]
         IN SelectSeq(fields, LAMBDA i : Len(i) >= Len(SCHEMA))

\* "not data" for a parse result
IsFalsy(data) == data = None \/ data = <<>>

RECURSIVE SumDurations(_, _)
\* the sum of float(row[DURATION]) over the first n rows of data
SumDurations(data, n) ==
    IF n = 0 THEN 0
    ELSE SumDurations(data, n - 1) + FloatVal(Field(data[n], SchemaIndex(DURATION)))

\* the first row's token at the duration column, taken for its start_time
FirstStart_Duration(data) == Field(data[1], SchemaIndex(DURATION))

\* the first row's start_time token
FirstStart(data) == Field(data[1], SchemaIndex(START_TIME))

\* the exception calculate_pattern_duration(data) raises, NoError when it returns
PatternDurationError(data) ==
    IF data = None THEN TypeError
    ELSE IF Len(data) = 0 THEN IndexError
    ELSE IF ~FloatOk(FirstStart(data)) THEN ValueError
    ELSE IF \E n \in 1..Len(data) : ~FloatOk(Field(data[n], SchemaIndex(DURATION)))
         THEN ValueError
    ELSE NoError

\* t started at 0 instead of the first start_time
PatternSum_NoStart(data) == SumDurations(data, Len(data))

\* t of calculate_pattern_duration before the final round
PatternSum(data) == FloatVal(FirstStart(data)) + SumDurations(data, Len(data))

\* calculate_pattern_duration(data), when it returns
calculate_pattern_duration(data) == round4(PatternSum(data))

\* pointer started at 0 instead of the first start_time
InitialPointer_Zero(data) == 0

\* the pointer a loop of send_events starts with
InitialPointer(data) == FloatVal(FirstStart(data))

\* the exception the body of a send_events loop raises on row, NoError when
\* the note is sent
RowError(row) ==
    IF ~IntOk(Field(row, SchemaIndex(PITCH))) THEN ValueError
    ELSE IF ~IntOk(Field(row, SchemaIndex(VELOCITY))) THEN ValueError
    ELSE IF ~FloatOk(Field(row, SchemaIndex(DURATION))) THEN ValueError
    ELSE NoError

\* the commands of ableton_client.send_message
SetTempoMsg(tempo) == <<"/live/song/set/tempo", <<tempo>>>>
\* every delete aimed at the clip of the first track
DeleteClipMsg_Melody(s) == <<"/live/clip_slot/delete_clip", <<0, 0>>>>
DeleteClipMsg(s) == <<"/live/clip_slot/delete_clip", <<s, 0>>>>
CreateClipMsg(s, len) == <<"/live/clip_slot/create_clip", <<s, 0, len>>>>
\* the note placed at its row's own start_time instead of the pointer
AddNoteMsg_RowStart(s, row, ptr) ==
    <<"/live/clip/add/notes",
      <<s, 0, IntVal(Field(row, SchemaIndex(PITCH))),
        IF FloatOk(Field(row, SchemaIndex(START_TIME)))
        THEN FloatVal(Field(row, SchemaIndex(START_TIME))) ELSE ptr,
        FloatVal(Field(row, SchemaIndex(DURATION))),
        IntVal(Field(row, SchemaIndex(VELOCITY))), 0>>>>
AddNoteMsg(s, row, ptr) ==
    <<"/live/clip/add/notes",
      <<s, 0, IntVal(Field(row, SchemaIndex(PITCH))), ptr,
        FloatVal(Field(row, SchemaIndex(DURATION))),
        IntVal(Field(row, SchemaIndex(VELOCITY))), 0>>>>

\* ------------------------------------------------------------ the inputs
\* longest table (in lines) of the texts tried
MaxRows == 2
\* largest number of marker blocks of the texts tried for the extraction
MaxBlocks == 4

\* the lines a table of a response is made of
LineMenu ==
    { "60 0.0 0.5 100",
      "36 0.2 1 120 7",
      "62\t0.00004\t0.5\t80",
      "60 x 0.5 100",
      "60 0.0 x 100",
      "300 0.0 0.5 100",
      "60x 0 1 100",
      "60  0.0 0.5 100",
      "9 0.0 0.5 100",
      "60 0.5",
      "60 0 -0.5 9" }

\* the tables of the two tracks that are not varied
ShortTable == <<"40 0.0 1.0 90">>
LongTable == <<"60 0.5 0.5 100", "64 0.5 0.25 90", "36 0.2 1 120">>

SeqsUpTo(S, n) == UNION { [1..k -> S] : k \in 0..n }

RECURSIVE JoinLines(_)
\* the text of a table: every line ends with a newline
JoinLines(lines) ==
    IF Len(lines) = 0 THEN "" ELSE Head(lines) \o NL \o JoinLines(Tail(lines))

\* a response in the requested layout: the three markers in order, each
\* followed by its table
Layout(m, d, b) ==
    MELODY \o NL \o JoinLines(m) \o NL
    \o DRUM \o NL \o JoinLines(d) \o NL
    \o BASS \o NL \o JoinLines(b)

\* responses in which one table is any sequence of menu lines
TableTexts ==
    { Layout(t, ShortTable, LongTable) : t \in SeqsUpTo(LineMenu, MaxRows) }
    \cup { Layout(LongTable, t, ShortTable) : t \in SeqsUpTo(LineMenu, MaxRows) }
    \cup { Layout(ShortTable, LongTable, t) : t \in SeqsUpTo(LineMenu, MaxRows) }

Markers == <<MELODY, DRUM, BASS>>

RECURSIVE Blocks(_, _)
\* a response made of marker blocks in any order, markers repeated or left
\* out: block k is a marker and one row whose pitch tells marker and position
Blocks(ms, k) ==
    IF k > Len(ms) THEN ""
    ELSE Markers[ms[k]] \o NL \o str(30 + 10 * ms[k] + k) \o " 0.0 0.5 100" \o NL
         \o Blocks(ms, k + 1)

BlockTexts == { Blocks(ms, 1) : ms \in SeqsUpTo(1..3, MaxBlocks) }

\* the responses get_openai_response may return
Responses == TableTexts \cup BlockTexts

\* ------------------------------------------------------------- the state
VARIABLES
    response_text,  \* the text get_openai_response returned
    pc,             \* the statement of the script that runs next
    raw,            \* the three sections cut out of response_text
    melody_data, drum_data, bass_data,  \* the parsed tables
    warning,        \* the text of the warning issued, "" when none
    raised,         \* the exception that ended the run, NoError when none
    pattern_len,    \* melody_pattern_len, drum_pattern_len, bass_pattern_len
    slot,           \* the track initiate_clips or send_events is at
    row_no,         \* the row of the track the loop of send_events is at
    pointer,        \* pointer of send_events
    sent            \* the commands given to ableton_client.send_message

vars == <<response_text, pc, raw, melody_data, drum_data, bass_data, warning,
          raised, pattern_len, slot, row_no, pointer, sent>>

\* the table of track s (0 melody, 1 drum, 2 bass)
Track(s) == CASE s = 0 -> melody_data [] s = 1 -> drum_data [] s = 2 -> bass_data

Init ==
    /\ response_text \in Responses
    /\ pc = "check_markers"
    /\ raw = <<"", "", "">>
    /\ melody_data = None
    /\ drum_data = None
    /\ bass_data = None
    /\ warning = ""
    /\ raised = NoError
    /\ pattern_len = <<>>
    /\ slot = 0
    /\ row_no = 0
    /\ pointer = 0
    /\ sent = <<>>

\* the test of the three markers
MarkerMissing(text) ==
    \/ ~Contains(text, MELODY)
    \/ ~Contains(text, DRUM)
    \/ ~Contains(text, BASS)

CheckMarkers ==
    /\ pc = "check_markers"
    /\ IF MarkerMissing(response_text)
       THEN /\ warning' = "Incomplete GPT response. Try again."
            /\ pc' = "exited"
       ELSE /\ pc' = "parse"
            /\ UNCHANGED warning
    /\ UNCHANGED <<response_text, raw, melody_data, drum_data, bass_data, raised,
                   pattern_len, slot, row_no, pointer, sent>>

\* the three sections the script hands to parse_table_to_list
Sections(text) ==
    <<find_substring(text, MELODY, DRUM),
      find_substring(text, DRUM, BASS),
      SplitOnceTail(text, BASS)>>

ParseTables ==
    /\ pc = "parse"
    /\ raw' = Sections(response_text)
    /\ melody_data' = parse_table_to_list(raw'[1], VALID_MIDI_NOTES)
    /\ drum_data' = parse_table_to_list(raw'[2], VALID_MIDI_NOTES)
    /\ bass_data' = parse_table_to_list(raw'[3], VALID_MIDI_NOTES)
    /\ pc' = "validate"
    /\ UNCHANGED <<response_text, warning, raised, pattern_len, slot, row_no,
                   pointer, sent>>

\* the validation with the bass table left out
TableMissing_NoBass(m, d, b) == IsFalsy(m) \/ IsFalsy(d)

\* the test that ends the run before any command is built
TableMissing(m, d, b) == IsFalsy(m) \/ IsFalsy(d) \/ IsFalsy(b)

Validate ==
    /\ pc = "validate"
    /\ IF TableMissing(melody_data, drum_data, bass_data)
       THEN /\ warning' = "Incorrect GPT response MIDI note format. Try again."
            /\ pc' = "exited"
       ELSE /\ pc' = "set_tempo"
            /\ UNCHANGED warning
    /\ UNCHANGED <<response_text, raw, melody_data, drum_data, bass_data, raised,
                   pattern_len, slot, row_no, pointer, sent>>

\* initiate_clips: the tempo command
SetTempo ==
    /\ pc = "set_tempo"
    /\ sent' = Append(sent, SetTempoMsg(SONG_TEMPO))
    /\ pc' = "pattern_lens"
    /\ UNCHANGED <<response_text, raw, melody_data, drum_data, bass_data, warning,
                   raised, pattern_len, slot, row_no, pointer>>

\* the first exception of the three calls of calculate_pattern_duration
PatternLensError(m, d, b) ==
    IF PatternDurationError(m) # NoError THEN PatternDurationError(m)
    ELSE IF PatternDurationError(d) # NoError THEN PatternDurationError(d)
    ELSE PatternDurationError(b)

\* initiate_clips: the three pattern lengths
PatternLens ==
    /\ pc = "pattern_lens"
    /\ IF PatternLensError(melody_data, drum_data, bass_data) # NoError
       THEN /\ raised' = PatternLensError(melody_data, drum_data, bass_data)
            /\ pc' = "raised"
            /\ UNCHANGED pattern_len
       ELSE /\ pattern_len' = <<calculate_pattern_duration(melody_data),
                                calculate_pattern_duration(drum_data),
                                calculate_pattern_duration(bass_data)>>
            /\ pc' = "clips"
            /\ UNCHANGED raised
    /\ UNCHANGED <<response_text, raw, melody_data, drum_data, bass_data, warning,
                   slot, row_no, pointer, sent>>

\* initiate_clips: the clip of one track is deleted and created again
CreateClip ==
    /\ pc = "clips"
    /\ sent' = sent \o <<DeleteClipMsg(slot), CreateClipMsg(slot, pattern_len[slot + 1])>>
    /\ IF slot = 2
       THEN /\ pc' = "notes_begin"
            /\ slot' = 0
       ELSE /\ slot' = slot + 1
            /\ UNCHANGED pc
    /\ UNCHANGED <<response_text, raw, melody_data, drum_data, bass_data, warning,
                   raised, pattern_len, row_no, pointer>>

\* send_events: "if data:" and the initial pointer of one track
BeginTrack ==
    /\ pc = "notes_begin"
    /\ IF IsFalsy(Track(slot))
       THEN /\ row_no' = 1
            /\ pc' = "notes"
            /\ UNCHANGED <<pointer, raised>>
       ELSE IF ~FloatOk(FirstStart(Track(slot)))
       THEN /\ raised' = ValueError
            /\ pc' = "raised"
            /\ UNCHANGED <<pointer, row_no>>
       ELSE /\ pointer' = InitialPointer(Track(slot))
            /\ row_no' = 1
            /\ pc' = "notes"
            /\ UNCHANGED raised
    /\ UNCHANGED <<response_text, raw, melody_data, drum_data, bass_data, warning,
                   pattern_len, slot, sent>>

\* the rows the loop over track s runs through
RowCount(s) == IF IsFalsy(Track(s)) THEN 0 ELSE Len(Track(s))

\* send_events: one turn of the loop over the rows of a track
AddNote ==
    /\ pc = "notes"
    /\ row_no <= RowCount(slot)
    /\ LET row == Track(slot)[row_no] IN
       IF RowError(row) # NoError
       THEN /\ raised' = RowError(row)
            /\ pc' = "raised"
            /\ UNCHANGED <<sent, pointer, row_no>>
       ELSE /\ sent' = Append(sent, AddNoteMsg(slot, row, pointer))
            /\ pointer' = pointer + FloatVal(Field(row, SchemaIndex(DURATION)))
            /\ row_no' = row_no + 1
            /\ UNCHANGED <<pc, raised>>
    /\ UNCHANGED <<response_text, raw, melody_data, drum_data, bass_data, warning,
                   pattern_len, slot>>

\* send_events: the loop of a track is over, the next track or the end
EndTrack ==
    /\ pc = "notes"
    /\ row_no > RowCount(slot)
    /\ IF slot = 2
       THEN /\ pc' = "done"
            /\ UNCHANGED slot
       ELSE /\ slot' = slot + 1
            /\ pc' = "notes_begin"
    /\ UNCHANGED <<response_text, raw, melody_data, drum_data, bass_data, warning,
                   raised, pattern_len, row_no, pointer, sent>>

Next ==
    \/ CheckMarkers
    \/ ParseTables
    \/ Validate
    \/ SetTempo
    \/ PatternLens
    \/ CreateClip
    \/ BeginTrack
    \/ AddNote
    \/ EndTrack

Spec == Init /\ [][Next]_vars

\* the run is over
Terminated == pc \in {"done", "exited", "raised"}

TypeOK ==
    /\ pc \in {"check_markers", "parse", "validate", "set_tempo", "pattern_lens",
               "clips", "notes_begin", "notes", "done", "exited", "raised"}
    /\ slot \in 0..2
    /\ raised \in {NoError, ValueError, IndexError, TypeError}

\* ------------------------------------------------- notions of the claims
\* the run got past the validation of the tables
ReachedSequencing ==
    pc \in {"set_tempo", "pattern_lens", "clips", "notes_begin", "notes", "done", "raised"}

\* the tables have been parsed
Parsed == pc \notin {"check_markers", "parse"}

Slots == {0, 1, 2}

IsAddNote(msg) == msg[1] = "/live/clip/add/notes"
IsClipMsg(msg) ==
    msg[1] \in {"/live/clip_slot/delete_clip", "/live/clip_slot/create_clip"}

\* every token of every row of data converts to its number
FullyNumeric(data) ==
    \A n \in 1..Len(data) :
        /\ IntOk(data[n][1])
        /\ FloatOk(data[n][2])
        /\ FloatOk(data[n][3])
        /\ IntOk(data[n][4])

RECURSIVE DurationsBefore(_, _)
\* the durations of the rows before row n, added up
DurationsBefore(data, n) ==
    IF n <= 1 THEN 0 ELSE DurationsBefore(data, n - 1) + FloatVal(data[n - 1][3])

\* the add-note command row n of track s should produce
NoteOf(s, n) ==
    <<"/live/clip/add/notes",
      <<s, 0, IntVal(Track(s)[n][1]),
        FloatVal(Track(s)[1][2]) + DurationsBefore(Track(s), n),
        FloatVal(Track(s)[n][3]), IntVal(Track(s)[n][4]), 0>>>>

NotesOf(s) == [n \in 1..Len(Track(s)) |-> NoteOf(s, n)]

\* delete-clip and create-clip of slot s as the interface lists them
ClipPairOf(s) ==
    <<<<"/live/clip_slot/delete_clip", <<s, 0>>>>,
      <<"/live/clip_slot/create_clip",
        <<s, 0, round4(FloatVal(Track(s)[1][2])
                       + DurationsBefore(Track(s), Len(Track(s)) + 1))>>>>>>

\* the whole stream of a run over three numeric tables
FullStream ==
    <<<<"/live/song/set/tempo", <<60>>>>>>
    \o ClipPairOf(0) \o ClipPairOf(1) \o ClipPairOf(2)
    \o NotesOf(0) \o NotesOf(1) \o NotesOf(2)

IsPrefix(a, b) == Len(a) <= Len(b) /\ a = SubSeq(b, 1, Len(a))

\* ---------------------------------------------------------------- claim C1
\* C1: a run that reaches sequencing with three non-empty, fully numeric
\* tables sends exactly: set-tempo; delete-clip and create-clip of slot 0, 1,
\* 2; then the add-note commands of slot 0, 1, 2.  At every moment the commands
\* sent so far are the beginning of that stream, the run does not fail, every
\* clip command is among the first seven commands and every add-note command
\* comes after them.
C1_CommandStream ==
    (ReachedSequencing /\ \A s \in Slots : FullyNumeric(Track(s)))
    => /\ IsPrefix(sent, FullStream)
       /\ pc # "raised"
       /\ (pc = "done" => sent = FullStream)
       /\ \A i \in 1..Len(sent) :
              /\ IsAddNote(sent[i]) => i > 7
              /\ IsClipMsg(sent[i]) => i \in 2..7

C1_Witness ==
    /\ pc = "done"
    /\ \A s \in Slots : FullyNumeric(Track(s))
    /\ Len(melody_data) = 3
    /\ Len(drum_data) = 2
    /\ Len(sent) = 7 + 3 + 2 + 1

\* ---------------------------------------------------------------- claim C2
\* C2: a run that ends with a conversion error has sent no command at all; a
\* run never stops after a proper beginning of its command stream.
C2_AllOrNothing ==
    Terminated => (sent = <<>> \/ pc = "done")

\* ---------------------------------------------------------------- claim C3
\* C3: when one of the three markers is absent from the text, or one of the
\* three sections parses to None or to no row, the run never gets to the
\* sequencing, sends no command, and ends after a warning.
SomeMarkerAbsent ==
    \E m \in {"Melody", "Drum", "Bass"} : ~Contains(response_text, m)

SomeTableEmpty ==
    Parsed /\ \E s \in Slots : Track(s) = None \/ Len(Track(s)) = 0

C3_ValidationGatesOutput ==
    (SomeMarkerAbsent \/ SomeTableEmpty)
    => /\ sent = <<>>
       /\ ~ReachedSequencing
       /\ pc # "done"
       /\ (Terminated => (pc = "exited" /\ warning # ""))
       /\ (SomeMarkerAbsent => pc \in {"check_markers", "exited"})

\* all three markers occur, but Drum only before Melody: the melody section
\* is "" and parses to None
C3_Witness ==
    /\ pc = "exited"
    /\ ~SomeMarkerAbsent
    /\ raw[1] = ""
    /\ melody_data = None
    /\ drum_data # None
    /\ warning = "Incorrect GPT response MIDI note format. Try again."
    /\ sent = <<>>

\* ---------------------------------------------------------------- claim C4
\* a row of table s whose start_time token does not convert
BadStartAt(s, n) == ~FloatOk(Track(s)[n][2])

NumericButLaterStarts(data) ==
    \A n \in 1..Len(data) :
        /\ IntOk(data[n][1])
        /\ (n = 1 => FloatOk(data[n][2]))
        /\ FloatOk(data[n][3])
        /\ IntOk(data[n][4])

C5_LeadingTokenInRange ==
    Parsed =>
        \A s \in Slots :
            Track(s) # None =>
                \A n \in 1..Len(Track(s)) :
                    \E note \in 30..90 : Track(s)[n][1] = str(note)

\* ---------------------------------------------------------------- claim C6
\* the tokens of a line: the non-empty pieces between runs of tabs and spaces
RunTokens(line) == SelectSeq(re_split(line), LAMBDA t : t # "")

\* a line of at least four tokens that begins with a pitch of the valid range
WellFormedLine(line) ==
    /\ line # ""
    /\ CharAt(line, 0) \notin {TAB, SP}
    /\ Len(RunTokens(line)) >= 4
    /\ \E note \in 30..90 : RunTokens(line)[1] = str(note)

NonEmptyLines(text) == SelectSeq(SplitLines(text), LAMBDA line : line # "")

\* C6: a section all of whose non-empty lines are well formed parses to one
\* record per line, in line order, and the first four fields of each record
\* are the first four tokens of its line.
C6_FieldsAreTokens ==
    Parsed =>
        \A s \in Slots :
            LET lines == NonEmptyLines(raw[s + 1]) IN
            (Len(lines) > 0 /\ \A k \in 1..Len(lines) : WellFormedLine(lines[k]))
            => /\ Track(s) # None
               /\ Len(Track(s)) = Len(lines)
               /\ \A k \in 1..Len(lines) :
                      SubSeq(Track(s)[k], 1, 4) = SubSeq(RunTokens(lines[k]), 1, 4)

\* ---------------------------------------------------------------- claim C7
\* the offsets at which marker occurs in the text
Occurrences(marker) ==
    { i \in 0..(Len(response_text) - Len(marker)) :
          SubSeq(response_text, i + 1, i + Len(marker)) = marker }

Largest(S) == CHOOSE x \in S : \A y \in S : y <= x
Smallest(S) == CHOOSE x \in S : \A y \in S : x <= y

\* the offset just after the last occurrence of marker
AfterLast(marker) == Largest(Occurrences(marker)) + Len(marker)

\* the occurrences of marker at or after offset from
OccurrencesFrom(marker, from) == { i \in Occurrences(marker) : i >= from }

\* C7 as stated: a section is the text between the last occurrence of its
\* marker and the first occurrence of the following marker after it; the last
\* section runs from the last occurrence of its marker to the end of the text.
C7_UpToFirstFollowingMarker ==
    (pc = "validate" /\ ~SomeMarkerAbsent)
    => /\ OccurrencesFrom("Drum", AfterLast("Melody")) # {}
          => raw[1] = Slice(response_text, AfterLast("Melody"),
                            Smallest(OccurrencesFrom("Drum", AfterLast("Melody"))))
       /\ OccurrencesFrom("Bass", AfterLast("Drum")) # {}
          => raw[2] = Slice(response_text, AfterLast("Drum"),
                            Smallest(OccurrencesFrom("Bass", AfterLast("Drum"))))
       /\ raw[3] = Slice(response_text, AfterLast("Bass"), Len(response_text))

\* the section of marker as the extraction cuts it: from the last occurrence
\* of marker to the last occurrence of following after it, "" without one
UpToLast(marker, following) ==
    IF OccurrencesFrom(following, AfterLast(marker)) = {} THEN ""
    ELSE Slice(response_text, AfterLast(marker),
               Largest(OccurrencesFrom(following, AfterLast(marker))))

\* C7 amended: the melody and the drum section are the text between the last
\* occurrence of their marker and the last occurrence of the following marker
\* after it (the empty text when there is none); the bass section is the text
\* after the first occurrence of Bass.
C7_UpToLastFollowingMarker ==
    (pc = "validate" /\ ~SomeMarkerAbsent)
    => /\ raw[1] = UpToLast("Melody", "Drum")
       /\ raw[2] = UpToLast("Drum", "Bass")
       /\ raw[3] = Slice(response_text, Smallest(Occurrences("Bass")) + Len("Bass"),
                         Len(response_text))

\* Drum occurs twice after the last Melody, Bass after both: the melody
\* section runs over the first Drum up to the second
C7_Witness ==
    /\ Parsed
    /\ ~SomeMarkerAbsent
    /\ Cardinality(OccurrencesFrom("Drum", AfterLast("Melody"))) = 2
    /\ Contains(raw[1], "Drum")
    /\ Len(melody_data) = 2

\* ---------------------------------------------------------------- claim C8
\* the three clips have just been created
ClipsCreated == pc = "notes_begin" /\ slot = 0

\* the length the create-clip command of slot s carried
ClipLength(s) == sent[2 * s + 3][2][3]

\* first start_time plus all durations, before any rounding
ExactLength(data) == FloatVal(data[1][2]) + DurationsBefore(data, Len(data) + 1)

\* the orders of n rows that leave the first row first
PermsKeepingFirst(n) ==
    { [i \in 1..n |-> IF i = 1 THEN 1 ELSE q[i]] :
          q \in { f \in [2..n -> 2..n] : \A i, j \in 2..n : f[i] = f[j] => i = j } }

Permuted(data, p) == [n \in 1..Len(data) |-> data[p[n]]]

\* data with the start_time token of row n replaced
WithStart(data, n, tok) == [data EXCEPT ![n][2] = tok]

\* start_time tokens tried as replacements
StartTokens == {"0.0", "0.5", "0.2", "0.00004", "0.0001", "1"}

\* the value has at most four decimal digits
FourDecimals(v) == v % Pow10(FRAC_DIGITS - 4) = 0

NotesSent(s) == SelectSeq(sent, LAMBDA msg : IsAddNote(msg) /\ msg[2][1] = s)

AllNotesSent == SelectSeq(sent, IsAddNote)

\* C9: the add-note commands of slot s are, row by row and in row order,
\* (s, 0, pitch, pointer, duration, velocity, 0), the pointer of row n being
\* the first row's start_time plus the durations of the rows before n; the
\* commands are grouped by slot, and a completed run has sent one for every
\* row.  No start_time token but the first row's enters any command.
C9_NotesFollowPointer ==
    ReachedSequencing =>
        /\ \A s \in Slots :
               /\ Len(NotesSent(s)) <= Len(Track(s))
               /\ \A n \in 1..Len(NotesSent(s)) : NotesSent(s)[n] = NoteOf(s, n)
               /\ (pc = "done" => Len(NotesSent(s)) = Len(Track(s)))
        /\ AllNotesSent = NotesSent(0) \o NotesSent(1) \o NotesSent(2)

\* a completed run over a table whose third row stores a start_time that is
\* not the pointer its note is sent with, the drum notes starting over
C9_Witness ==
    /\ pc = "done"
    /\ Len(melody_data) = 3
    /\ FloatOk(melody_data[3][2])
    /\ FloatVal(melody_data[3][2]) # NotesSent(0)[3][2][4]
    /\ NotesSent(0)[3][2][4] = FloatVal("1.25")
    /\ NotesSent(1)[1][2][4] = FloatVal(drum_data[1][2])

\* --------------------------------------------------------------- claim C10
NonNegativeDurations(data) ==
    \A n \in 1..Len(data) : FloatOk(data[n][3]) /\ FloatVal(data[n][3]) >= 0

NoteStart(msg) == msg[2][4]
NoteEnd(msg) == msg[2][4] + msg[2][5]

\* C10: in a completed run without negative durations, the notes of slot s
\* lie inside the clip created for slot s: the first starts at the first
\* row's start_time, each next one starts where the one before ends, none
\* ends after first start_time plus all durations, the last one ends exactly
\* there, and the clip was created with that length rounded to 4 digits.
C10_NotesInsideClip ==
    (pc = "done" /\ \A s \in Slots : NonNegativeDurations(Track(s)))
    => \A s \in Slots :
           LET notes == NotesSent(s) IN
           /\ Len(notes) = Len(Track(s))
           /\ NoteStart(notes[1]) = FloatVal(Track(s)[1][2])
           /\ \A n \in 1..Len(notes) :
                  /\ NoteStart(notes[n]) >= FloatVal(Track(s)[1][2])
                  /\ NoteEnd(notes[n]) <= ExactLength(Track(s))
                  /\ (n > 1 => NoteStart(notes[n]) = NoteEnd(notes[n - 1]))
           /\ NoteEnd(notes[Len(notes)]) = ExactLength(Track(s))
           /\ ClipLength(s) = round4(ExactLength(Track(s)))

\* a completed run whose melody has three notes and does not start at 0
C10_Witness ==
    /\ pc = "done"
    /\ \A s \in Slots : NonNegativeDurations(Track(s))
    /\ Len(NotesSent(0)) = 3
    /\ NoteStart(NotesSent(0)[1]) > 0
    /\ NoteEnd(NotesSent(0)[3]) = ClipLength(0)

====
